---- MODULE Spec2Model ----
(***************************************************************************)
(* Markdown -> Notion block conversion of NotesToNotion (src/src/engine.py).*)
(* Strings are sequences of one-character strings; indices of the Python   *)
(* code are kept 0-based and translated in the helpers below.              *)
(***************************************************************************)
EXTENDS Integers, Sequences, FiniteSets, TLC

VARIABLES
    pc,             \* control position of the current call
    limit,          \* Engine.NOTION_BLOCK_LIMIT
    text,           \* argument of _chunk_text / _force_chunk / _parse_line_for_latex
    chunks,         \* list returned by _chunk_text / _force_chunk
    cur,            \* cursor i of _parse_line_for_latex
    rich_text,      \* rich_text list of _parse_line_for_latex
    markdown,       \* argument of _markdown_to_notion_blocks
    lines,          \* lines of _parse_semantic_blocks
    i,              \* line index i of _parse_semantic_blocks
    blocks,         \* blocks list of _parse_semantic_blocks
    starts,         \* for each semantic block, the index of the line it started on
    k,              \* number of semantic blocks already rendered
    notion_blocks,  \* notion_blocks list of _markdown_to_notion_blocks
    caller,         \* call site awaiting retry_with_backoff / _wait_for_file_active
    max_retries,    \* parameters of retry_with_backoff
    base_delay,
    max_delay,
    retryable_errors,
    attempt,        \* loop variable of retry_with_backoff
    last_exception, \* last_exception of retry_with_backoff
    invocations,    \* outcomes of the invocations of func made so far
    sleeps,         \* delays passed to asyncio.sleep by retry_with_backoff so far
    outcome,        \* value returned or exception raised by the finished call
    page_title,     \* argument of push_to_notion
    backups,        \* files of the backup directory, as <<name, content>> pairs
    config,         \* self.config.gemini
    timeout,        \* timeout of _wait_for_file_active (0 stands for None)
    poll_interval,  \* poll_interval of _wait_for_file_active (0 stands for None)
    now,            \* time.time()
    start_time,     \* start_time of _wait_for_file_active
    polls,          \* polls made so far: elapsed time at the loop test, state seen
    pdf,            \* the file at pdf_path
    remote_files    \* names of the files held by the transcription service

convVars == <<limit, text, chunks, cur, rich_text, markdown, lines, i, blocks,
              starts, k, notion_blocks>>

retryVars == <<max_retries, base_delay, max_delay, retryable_errors, attempt,
               last_exception, invocations, sleeps>>

waitVars == <<timeout, poll_interval, now, start_time, polls>>

ioVars == <<caller, retryVars, outcome, page_title, backups, config, waitVars, pdf,
            remote_files>>

vars == <<pc, convVars, ioVars>>

----------------------------------------------------------------------------
(* Bounds of the model *)

MaxTextLen == 6

MaxLimit == 3

MaxLineLen == 5

MaxLines == 3

MaxBlockLimit == 2

MaxRetries == 3

MaxTimeout == 3

----------------------------------------------------------------------------
(* Characters and Python string primitives *)

NL == "\n"

SP == " "

DOLLAR == "$"

Whitespace == {SP, NL}

DigitsAndLetters == {"1", "3", "a"}

\* the characters for which str.isdigit is true, among those of the model
Digits == {"1", "3"}

Min(a, b) == IF a < b THEN a ELSE b

\* s[a:b] with 0 <= a, 0 <= b
Slice(s, a, b) == SubSeq(s, a + 1, Min(b, Len(s)))

\* s[a:]
SliceFrom(s, a) == SubSeq(s, a + 1, Len(s))

\* s.startswith(p)
StartsWith(s, p) == Len(s) >= Len(p) /\ SubSeq(s, 1, Len(p)) = p

\* s.find(pat, start): lowest index >= start where pat occurs, -1 when none
Find(s, pat, start) ==
    LET hits == {j \in start..(Len(s) - Len(pat)) : Slice(s, j, j + Len(pat)) = pat}
    IN  IF hits = {} THEN -1 ELSE CHOOSE j \in hits : \A h \in hits : j <= h

\* s.rfind(ch, start, end): highest index of the character ch in s[start:end], -1 when none
RFind(s, ch, start, end) ==
    LET hits == {j \in start..(Min(end, Len(s)) - 1) : s[j + 1] = ch}
    IN  IF hits = {} THEN -1 ELSE CHOOSE j \in hits : \A h \in hits : j >= h

\* pat in s
Contains(s, pat) == Find(s, pat, 0) # -1

RECURSIVE LStrip(_)
LStrip(s) == IF s # <<>> /\ Head(s) \in Whitespace THEN LStrip(Tail(s)) ELSE s

RECURSIVE RStrip(_)
RStrip(s) ==
    IF s # <<>> /\ s[Len(s)] \in Whitespace THEN RStrip(SubSeq(s, 1, Len(s) - 1)) ELSE s

\* s.strip()
Strip(s) == RStrip(LStrip(s))

\* s.split(sep)
RECURSIVE Split(_, _)
Split(s, sep) ==
    LET at == Find(s, sep, 0)
    IN  IF at = -1 THEN <<s>>
        ELSE <<Slice(s, 0, at)>> \o Split(SliceFrom(s, at + Len(sep)), sep)

\* sep.join(parts)
RECURSIVE Join(_, _)
Join(parts, sep) ==
    IF parts = <<>> THEN <<>>
    ELSE IF Len(parts) = 1 THEN parts[1]
    ELSE parts[1] \o sep \o Join(Tail(parts), sep)

\* "".join(parts)
Concat(parts) == Join(parts, <<>>)

----------------------------------------------------------------------------
(* Chunker: Engine._force_chunk and Engine._chunk_text *)

SplitPointPastLimit(t, L) ==
    LET sp == RFind(t, SP, 0, L + 1)
    IN  IF sp = -1 THEN L + 1 ELSE sp

SplitPointFirstSpace(t, L) ==
    LET sp == Find(Slice(t, 0, L), <<SP>>, 0)
    IN  IF sp = -1 THEN L ELSE sp

\* split_point = text.rfind(" ", 0, limit); if -1: split_point = limit
SplitPoint(t, L) ==
    LET sp == RFind(t, SP, 0, L)
    IN  IF sp = -1 THEN L ELSE sp

RemainderSkipsOne(t, sp) == LStrip(SliceFrom(t, sp + 1))

\* text = text[split_point:].lstrip()
Remainder(t, sp) == LStrip(SliceFrom(t, sp))

\* the while loop of _force_chunk, then "if text: chunks.append(text)"
RECURSIVE ForceChunkLoop(_, _, _)
ForceChunkLoop(t, L, acc) ==
    IF Len(t) > L
    THEN LET sp == SplitPoint(t, L)
         IN  ForceChunkLoop(Remainder(t, sp), L, Append(acc, Slice(t, 0, sp)))
    ELSE IF t # <<>> THEN Append(acc, t) ELSE acc

ForceChunk(t, L) == ForceChunkLoop(t, L, <<>>)

\* the "for para in paragraphs" loop of _chunk_text: [chunks, current_chunk]
RECURSIVE MergeParagraphs(_, _, _, _)
MergeParagraphs(paragraphs, L, acc, current_chunk) ==
    IF paragraphs = <<>> THEN [chunks |-> acc, current_chunk |-> current_chunk]
    ELSE LET para == Head(paragraphs)
             rest == Tail(paragraphs)
         IN  IF Len(current_chunk) + Len(para) + 2 <= L
             THEN MergeParagraphs(rest, L, acc,
                      current_chunk
                      \o (IF current_chunk # <<>> THEN <<NL, NL>> ELSE <<>>)
                      \o para)
             ELSE LET flushed == IF current_chunk # <<>>
                                 THEN Append(acc, current_chunk) ELSE acc
                  IN  IF Len(para) <= L
                      THEN MergeParagraphs(rest, L, flushed, para)
                      ELSE MergeParagraphs(rest, L, flushed \o ForceChunk(para, L), <<>>)

ChunkText(t, L) ==
    IF Len(t) <= L THEN <<t>>
    ELSE LET r     == MergeParagraphs(Split(t, <<NL, NL>>), L, <<>>, <<>>)
             final == IF r.current_chunk # <<>>
                      THEN Append(r.chunks, r.current_chunk) ELSE r.chunks
         IN  IF final # <<>> THEN final ELSE <<Slice(t, 0, L)>>

----------------------------------------------------------------------------
(* Inline-math scanner: Engine._parse_line_for_latex *)

\* {"type": "text", "text": {"content": c}}
TextEntry(c) == [type |-> "text", content |-> c]

\* {"type": "equation", "equation": {"expression": e}}
EquationEntry(e) == [type |-> "equation", expression |-> e]

ScanIterationNoSkip(t, c) ==
    LET found == Find(t, <<DOLLAR>>, c)
    IN  [i |-> IF found = -1 THEN Len(t) ELSE found,
         emit |-> IF found # c THEN <<TextEntry(Slice(t, c, Len(t)))>> ELSE <<>>]

\* One iteration of the while loop at cursor c < len(text): the new cursor and
\* the entries appended to rich_text.
ScanIteration(t, c) ==
    LET block_end   == IF Slice(t, c, c + 2) = <<DOLLAR, DOLLAR>>
                       THEN Find(t, <<DOLLAR, DOLLAR>>, c + 2) ELSE -1
        inline_end  == IF t[c + 1] = DOLLAR /\ c + 1 < Len(t) /\ t[c + 2] # DOLLAR
                       THEN Find(t, <<DOLLAR>>, c + 1) ELSE -1
        found       == Find(t, <<DOLLAR>>, c)
        next_dollar == IF found = -1 THEN Len(t) ELSE found
        plain_text  == Slice(t, c, next_dollar)
    IN  IF block_end # -1
        THEN [i |-> block_end + 2,
              emit |-> <<EquationEntry(Strip(Slice(t, c + 2, block_end)))>>]
        ELSE IF inline_end # -1
        THEN [i |-> inline_end + 1,
              emit |-> <<EquationEntry(Slice(t, c + 1, inline_end))>>]
        ELSE [i |-> IF next_dollar > c THEN next_dollar ELSE c + 1,
              emit |-> IF next_dollar > c /\ plain_text # <<>>
                       THEN <<TextEntry(plain_text)>> ELSE <<>>]

\* return rich_text if rich_text else [{"type": "text", "text": {"content": text}}]
ScanResult(t, acc) == IF acc # <<>> THEN acc ELSE <<TextEntry(t)>>

RECURSIVE ScanLoop(_, _, _)
ScanLoop(t, c, acc) ==
    IF c < Len(t)
    THEN LET step == ScanIteration(t, c) IN ScanLoop(t, step.i, acc \o step.emit)
    ELSE ScanResult(t, acc)

ParseLineForLatex(t) == ScanLoop(t, 0, <<>>)

----------------------------------------------------------------------------
(* Tokenizer: Engine._parse_semantic_blocks and Engine._is_special_line *)

\* SemanticBlock(type, content); type is the value of the BlockType member
SemanticBlock(type, content) == [type |-> type, content |-> content]

IsSpecialLine(line) ==
    LET stripped == Strip(line)
    IN  \/ StartsWith(stripped, <<"#">>)
        \/ stripped = <<DOLLAR, DOLLAR>>
        \/ StartsWith(stripped, <<"-", SP>>)
        \/ StartsWith(stripped, <<"*", SP>>)
        \/ (Len(stripped) > 0 /\ stripped[1] \in Digits /\ Contains(stripped, <<".", SP>>))

\* while i < len(lines) and lines[i].strip() != "$$": i += 1
RECURSIVE EquationEnd(_, _)
EquationEnd(ls, j) ==
    IF j < Len(ls) /\ Strip(ls[j + 1]) # <<DOLLAR, DOLLAR>>
    THEN EquationEnd(ls, j + 1) ELSE j

\* while i < len(lines) and lines[i].strip() != "" and not _is_special_line(lines[i]): i += 1
RECURSIVE ParagraphEnd(_, _)
ParagraphEnd(ls, j) ==
    IF j < Len(ls) /\ Strip(ls[j + 1]) # <<>> /\ ~IsSpecialLine(ls[j + 1])
    THEN ParagraphEnd(ls, j + 1) ELSE j

AfterFirstDotSpaceKeepsSpace(stripped) ==
    SliceFrom(stripped, Find(stripped, <<".", SP>>, 0) + 1)

\* stripped.split(". ", 1)[1]
AfterFirstDotSpace(stripped) == SliceFrom(stripped, Find(stripped, <<".", SP>>, 0) + 2)

EquationBlockUnstripped(ls, idx) ==
    LET close == EquationEnd(ls, idx + 1)
    IN  [i |-> close + 1,
         emit |-> <<SemanticBlock("equation",
                        Join([n \in 1..(close - idx - 1) |-> ls[idx + 1 + n]], <<NL>>))>>]

\* State 2: the lines after the opening $$ up to the closing $$ or the end
EquationBlock(ls, idx) ==
    LET close == EquationEnd(ls, idx + 1)
    IN  [i |-> close + 1,
         emit |-> <<SemanticBlock("equation",
                        Strip(Join([n \in 1..(close - idx - 1) |-> ls[idx + 1 + n]],
                                   <<NL>>)))>>]

ParagraphBlockUntrimmed(ls, idx) ==
    LET stop == ParagraphEnd(ls, idx)
        para_lines == [n \in 1..(stop - idx) |-> ls[idx + n]]
    IN  [i |-> stop,
         emit |-> IF para_lines # <<>>
                  THEN <<SemanticBlock("paragraph", Join(para_lines, <<NL>>))>>
                  ELSE <<>>]

\* State 6: the run of lines up to a blank or special line or the end
ParagraphBlock(ls, idx) ==
    LET stop == ParagraphEnd(ls, idx)
        para_lines == [n \in 1..(stop - idx) |-> Strip(ls[idx + n])]
    IN  [i |-> stop,
         emit |-> IF para_lines # <<>>
                  THEN <<SemanticBlock("paragraph", Join(para_lines, <<NL>>))>>
                  ELSE <<>>]

\* One iteration of the outer while loop at line index idx < len(lines): the
\* new index and the blocks appended.
OuterIteration(ls, idx) ==
    LET stripped == Strip(ls[idx + 1])
    IN  IF StartsWith(stripped, <<"#", "#", "#", SP>>)
        THEN [i |-> idx + 1, emit |-> <<SemanticBlock("heading_3", SliceFrom(stripped, 4))>>]
        ELSE IF StartsWith(stripped, <<"#", "#", SP>>)
        THEN [i |-> idx + 1, emit |-> <<SemanticBlock("heading_2", SliceFrom(stripped, 3))>>]
        ELSE IF StartsWith(stripped, <<"#", SP>>)
        THEN [i |-> idx + 1, emit |-> <<SemanticBlock("heading_1", SliceFrom(stripped, 2))>>]
        ELSE IF stripped = <<DOLLAR, DOLLAR>>
        THEN EquationBlock(ls, idx)
        ELSE IF StartsWith(stripped, <<"-", SP>>) \/ StartsWith(stripped, <<"*", SP>>)
        THEN [i |-> idx + 1,
              emit |-> <<SemanticBlock("bulleted_list_item", SliceFrom(stripped, 2))>>]
        ELSE IF stripped # <<>> /\ stripped[1] \in Digits /\ Contains(stripped, <<".", SP>>)
        THEN [i |-> idx + 1,
              emit |-> <<SemanticBlock("numbered_list_item", AfterFirstDotSpace(stripped))>>]
        ELSE IF stripped = <<>>
        THEN [i |-> idx + 1, emit |-> <<>>]
        ELSE ParagraphBlock(ls, idx)

----------------------------------------------------------------------------
(* Renderer: Engine._parse_rich_text, _create_*_block(s), _semantic_to_notion *)

RECURSIVE RichTextLinesTrailingBreak(_, _)
RichTextLinesTrailingBreak(ls, idx) ==
    IF idx >= Len(ls) THEN <<>>
    ELSE ParseLineForLatex(ls[idx + 1])
         \o <<TextEntry(<<NL>>)>>
         \o RichTextLinesTrailingBreak(ls, idx + 1)

\* the "for idx, line in enumerate(lines)" loop of _parse_rich_text
RECURSIVE RichTextLines(_, _)
RichTextLines(ls, idx) ==
    IF idx >= Len(ls) THEN <<>>
    ELSE ParseLineForLatex(ls[idx + 1])
         \o (IF idx < Len(ls) - 1 THEN <<TextEntry(<<NL>>)>> ELSE <<>>)
         \o RichTextLines(ls, idx + 1)

ParseRichText(t) ==
    LET rt == RichTextLines(Split(t, <<NL>>), 0)
    IN  IF rt # <<>> THEN rt ELSE <<TextEntry(t)>>

\* {"object": "block", "type": type, type: {"rich_text": rich}}
RichBlock(type, rich) == [type |-> type, rich_text |-> rich]

\* {"object": "block", "type": "equation", "equation": {"expression": e}}
EquationTarget(e) == [type |-> "equation", expression |-> e]

CreateListBlocks(t, list_type, L) ==
    LET cs == ChunkText(t, L)
    IN  [n \in 1..Len(cs) |-> RichBlock(list_type, ParseRichText(cs[n]))]

CreateHeadingBlockUntruncated(t, level, L) ==
    RichBlock(CASE level = 1 -> "heading_1" [] level = 2 -> "heading_2"
                [] OTHER -> "heading_3",
              ParseRichText(t))

CreateHeadingBlock(t, level, L) ==
    RichBlock(CASE level = 1 -> "heading_1" [] level = 2 -> "heading_2"
                [] OTHER -> "heading_3",
              ParseRichText(Slice(t, 0, L)))

CreateTextBlocksFirstChunkOnly(t, L) ==
    <<RichBlock("paragraph", ParseRichText(Head(ChunkText(t, L))))>>

CreateTextBlocks(t, L) ==
    LET cs == ChunkText(t, L)
    IN  [n \in 1..Len(cs) |-> RichBlock("paragraph", ParseRichText(cs[n]))]

ExtendAtFront(list, items) == items \o list

\* list.extend(items)
Extend(list, items) == list \o items

\* int(block.type.value.split("_")[1])
HeadingLevel(type) ==
    CASE type = "heading_1" -> 1 [] type = "heading_2" -> 2 [] OTHER -> 3

SemanticToNotion(block, L) ==
    IF block.type = "equation"
    THEN <<EquationTarget(Slice(block.content, 0, L))>>
    ELSE IF block.type = "bulleted_list_item"
    THEN CreateListBlocks(block.content, "bulleted_list_item", L)
    ELSE IF block.type = "numbered_list_item"
    THEN CreateListBlocks(block.content, "numbered_list_item", L)
    ELSE IF block.type \in {"heading_1", "heading_2", "heading_3"}
    THEN <<CreateHeadingBlock(block.content, HeadingLevel(block.type), L)>>
    ELSE CreateTextBlocks(block.content, L)

----------------------------------------------------------------------------
(* Exceptions, results and the arithmetic of retry_with_backoff *)

Exc(type, msg) == [type |-> type, msg |-> msg]

\* last_exception = None
NoException == Exc("None", <<>>)

Returns(v) == [kind |-> "return", value |-> v]

Raises(e) == [kind |-> "raise", value |-> e]

Pending == [kind |-> "none", value |-> <<>>]

\* str.lower, on the upper-case letters of the model
LowerChar(c) ==
    IF c = "A" THEN "a" ELSE IF c = "D" THEN "d" ELSE IF c = "E" THEN "e"
    ELSE IF c = "F" THEN "f" ELSE IF c = "I" THEN "i" ELSE IF c = "P" THEN "p"
    ELSE IF c = "R" THEN "r" ELSE c

Lower(s) == [n \in 1..Len(s) |-> LowerChar(s[n])]

RateLimitKeywords ==
    { <<"4", "2", "9">>,
      <<"r", "a", "t", "e">>,
      <<"q", "u", "o", "t", "a">>,
      <<"e", "x", "h", "a", "u", "s", "t", "e", "d">>,
      <<"l", "i", "m", "i", "t">> }

NeverRateLimit(e) == FALSE

\* is_rate_limit = any(x in str(e).lower() for x in ["429", "rate", ...])
IsRateLimit(e) == \E x \in RateLimitKeywords : Contains(Lower(e.msg), x)

\* except retryable_errors as e: every exception of the model derives from
\* Exception
IsInstance(e, classes) == "Exception" \in classes \/ e.type \in classes

\* min(base_delay * (2 ** attempt) + random.uniform(0, 1), max_delay)
Delay(n, base, cap, jitter) == Min(base * 2^n + jitter, cap)

\* dict.get(key, default), a dict being a set of <<key, value>> pairs
Get(dict, key, default) ==
    IF \E p \in dict : p[1] = key
    THEN (CHOOSE p \in dict : p[1] = key)[2]
    ELSE default

\* c.isalnum(), on the characters of the model
IsAlnum(c) == c \in {"a", "1"}

\* "".join(c if c.isalnum() or c in " -_" else "_" for c in page_title)
SafeTitle(title) ==
    [n \in 1..Len(title) |->
        IF IsAlnum(title[n]) \/ title[n] \in {SP, "-", "_"} THEN title[n] ELSE "_"]

BackupName(title) == SafeTitle(title) \o <<".", "m", "d">>

SaveLocalBackupEmptyFile(files, md, title) ==
    {f \in files : f[1] # BackupName(title)} \cup {<<BackupName(title), <<>>>>}

\* backup_path = backup_dir / f"{safe_title}.md"; backup_path.write_text(markdown)
SaveLocalBackup(files, md, title) ==
    {f \in files : f[1] # BackupName(title)} \cup {<<BackupName(title), md>>}

\* None, kept apart from every string: no character of a string is "None"
None == <<"None">>

----------------------------------------------------------------------------
(* Inputs *)

ChunkAlphabet == {"a", SP, NL, DOLLAR}

Strings(alphabet, n) == UNION {[1..m -> alphabet] : m \in 0..n}

Idle ==
    /\ cur = 0 /\ rich_text = <<>>
    /\ markdown = <<>> /\ lines = <<>> /\ i = 0 /\ blocks = <<>> /\ starts = <<>>
    /\ k = 0 /\ notion_blocks = <<>>


\* the default parameters of retry_with_backoff
DefaultMaxRetries == 5

DefaultBaseDelay == 1

DefaultMaxDelay == 60

\* random.uniform(0, 1): both ends of the interval
Jitter == {0, 1}

RetryIdle ==
    /\ max_retries = DefaultMaxRetries /\ base_delay = DefaultBaseDelay
    /\ max_delay = DefaultMaxDelay /\ retryable_errors = {"Exception"}
    /\ attempt = 0 /\ last_exception = NoException
    /\ invocations = <<>> /\ sleeps = <<>>

\* one GeminiConfig, with small values of its three limits
Configs == {[upload_timeout |-> 2, poll_interval |-> 1, max_file_size_mb |-> 1]}

WaitIdle ==
    /\ config \in Configs
    /\ timeout = 0 /\ poll_interval = 0 /\ now = 0 /\ start_time = 0 /\ polls = <<>>

FilesIdle ==
    /\ page_title = <<>> /\ backups = {}
    /\ pdf = [exists |-> FALSE, suffix |-> <<>>, size_mb |-> 0]
    /\ remote_files = {}

IoIdle ==
    /\ caller = "none" /\ outcome = Pending
    /\ RetryIdle /\ WaitIdle /\ FilesIdle

ConversionIdle ==
    /\ limit = 1 /\ text = <<>> /\ chunks = <<>>
    /\ Idle

----------------------------------------------------------------------------
(* Specification of the chunker: one call of _chunk_text or _force_chunk *)

InitChunk ==
    /\ pc = "call"
    /\ limit \in 1..MaxLimit
    /\ text \in Strings(ChunkAlphabet, MaxTextLen)
    /\ chunks = <<>>
    /\ Idle
    /\ IoIdle

CallChunkText ==
    /\ pc = "call"
    /\ chunks' = ChunkText(text, limit)
    /\ pc' = "chunk_text_done"
    /\ UNCHANGED <<limit, text, cur, rich_text, markdown, lines, i, blocks, starts,
                   k, notion_blocks>>
    /\ UNCHANGED ioVars

CallForceChunk ==
    /\ pc = "call"
    /\ chunks' = ForceChunk(text, limit)
    /\ pc' = "force_chunk_done"
    /\ UNCHANGED <<limit, text, cur, rich_text, markdown, lines, i, blocks, starts,
                   k, notion_blocks>>
    /\ UNCHANGED ioVars

NextChunk == CallChunkText \/ CallForceChunk

SpecChunk == InitChunk /\ [][NextChunk]_vars

----------------------------------------------------------------------------
(* Specification of the scanner: one call of _parse_line_for_latex, one step *)
(* per iteration of its loop                                                *)

ScanAlphabet == {"a", SP, DOLLAR}

InitScan ==
    /\ pc = "scan"
    /\ text \in Strings(ScanAlphabet, MaxLineLen)
    /\ cur = 0
    /\ rich_text = <<>>
    /\ limit = 1 /\ chunks = <<>>
    /\ markdown = <<>> /\ lines = <<>> /\ i = 0 /\ blocks = <<>> /\ starts = <<>>
    /\ k = 0 /\ notion_blocks = <<>>
    /\ IoIdle

ScanStep ==
    /\ pc = "scan"
    /\ cur < Len(text)
    /\ LET step == ScanIteration(text, cur)
       IN  /\ cur' = step.i
           /\ rich_text' = rich_text \o step.emit
    /\ UNCHANGED <<pc, limit, text, chunks, markdown, lines, i, blocks, starts, k,
                   notion_blocks>>
    /\ UNCHANGED ioVars

ScanReturn ==
    /\ pc = "scan"
    /\ ~(cur < Len(text))
    /\ rich_text' = ScanResult(text, rich_text)
    /\ pc' = "scan_done"
    /\ UNCHANGED <<limit, text, chunks, cur, markdown, lines, i, blocks, starts, k,
                   notion_blocks>>
    /\ UNCHANGED ioVars

NextScan == ScanStep \/ ScanReturn

SpecScan == InitScan /\ [][NextScan]_vars

\* the call is not suspended: the loop runs until it returns
FairSpecScan == SpecScan /\ WF_vars(NextScan)

----------------------------------------------------------------------------
(* Specification of the rich-text parser: one call of _parse_rich_text *)

RichAlphabet == {"a", SP, NL, DOLLAR}

InitRich ==
    /\ pc = "rich"
    /\ text \in Strings(RichAlphabet, MaxLineLen)
    /\ cur = 0
    /\ rich_text = <<>>
    /\ limit = 1 /\ chunks = <<>>
    /\ markdown = <<>> /\ lines = <<>> /\ i = 0 /\ blocks = <<>> /\ starts = <<>>
    /\ k = 0 /\ notion_blocks = <<>>
    /\ IoIdle

CallParseRichText ==
    /\ pc = "rich"
    /\ rich_text' = ParseRichText(text)
    /\ pc' = "rich_done"
    /\ UNCHANGED <<limit, text, chunks, cur, markdown, lines, i, blocks, starts, k,
                   notion_blocks>>
    /\ UNCHANGED ioVars

NextRich == CallParseRichText

SpecRich == InitRich /\ [][NextRich]_vars

----------------------------------------------------------------------------
(* Specification of the conversion: one call of _markdown_to_notion_blocks,  *)
(* one step per iteration of the tokenizer's outer loop and per rendered       *)
(* semantic block                                                              *)

SampleLines ==
    { <<>>,
      <<"a">>,
      <<SP, DOLLAR, "a", DOLLAR>>,
      <<"#", SP, "a">>,
      <<"#", "#", SP, "a", "a">>,
      <<"#", "#", "#", SP, "a">>,
      <<"#", "a">>,
      <<DOLLAR, DOLLAR>>,
      <<SP, DOLLAR, DOLLAR>>,
      <<"-", SP, "a", SP, "a">>,
      <<"1", ".", SP, "a">>,
      <<"a", "1", ".", SP, "a">> }

Documents ==
    {Join(ls, <<NL>>) : ls \in UNION {[1..n -> SampleLines] : n \in 1..MaxLines}}

Init ==
    /\ pc = "start"
    /\ markdown \in Documents
    /\ limit \in 1..MaxBlockLimit
    /\ lines = <<>> /\ i = 0 /\ blocks = <<>> /\ starts = <<>>
    /\ k = 0 /\ notion_blocks = <<>>
    /\ text = <<>> /\ chunks = <<>> /\ cur = 0 /\ rich_text = <<>>
    /\ IoIdle

\* blocks = []; lines = markdown.split("\n"); i = 0
ParseBegin ==
    /\ pc = "start"
    /\ lines' = Split(markdown, <<NL>>)
    /\ i' = 0
    /\ blocks' = <<>>
    /\ starts' = <<>>
    /\ pc' = "parse"
    /\ UNCHANGED <<limit, text, chunks, cur, rich_text, markdown, k, notion_blocks>>
    /\ UNCHANGED ioVars

ParseIteration ==
    /\ pc = "parse"
    /\ i < Len(lines)
    /\ LET step == OuterIteration(lines, i)
       IN  /\ i' = step.i
           /\ blocks' = blocks \o step.emit
           /\ starts' = starts \o [n \in 1..Len(step.emit) |-> i]
    /\ UNCHANGED <<pc, limit, text, chunks, cur, rich_text, markdown, lines, k,
                   notion_blocks>>
    /\ UNCHANGED ioVars

\* return blocks; notion_blocks = []
ParseReturn ==
    /\ pc = "parse"
    /\ ~(i < Len(lines))
    /\ pc' = "render"
    /\ k' = 0
    /\ notion_blocks' = <<>>
    /\ UNCHANGED <<limit, text, chunks, cur, rich_text, markdown, lines, i, blocks,
                   starts>>
    /\ UNCHANGED ioVars

\* for block in semantic_blocks: notion_blocks.extend(self._semantic_to_notion(block))
RenderBlock ==
    /\ pc = "render"
    /\ k < Len(blocks)
    /\ notion_blocks' = Extend(notion_blocks, SemanticToNotion(blocks[k + 1], limit))
    /\ k' = k + 1
    /\ UNCHANGED <<pc, limit, text, chunks, cur, rich_text, markdown, lines, i, blocks,
                   starts>>
    /\ UNCHANGED ioVars

\* return notion_blocks
RenderReturn ==
    /\ pc = "render"
    /\ k = Len(blocks)
    /\ pc' = "done"
    /\ UNCHANGED <<limit, text, chunks, cur, rich_text, markdown, lines, i, blocks,
                   starts, k, notion_blocks>>
    /\ UNCHANGED ioVars

Next == ParseBegin \/ ParseIteration \/ ParseReturn \/ RenderBlock \/ RenderReturn

Spec == Init /\ [][Next]_vars

----------------------------------------------------------------------------
(* retry_with_backoff: one step per iteration of its for loop.  func is an   *)
(* external call: each invocation returns a result or raises an error.       *)

\* the errors an API call raises
Errors ==
    { Exc("APIError", <<"4", "2", "9">>),
      Exc("ConnectionError", <<"R", "a", "t", "e">>),
      Exc("APIError", <<"A", "P", "I", SP, "E", "r", "r", "o", "r">>) }

FileName == <<"f">>

\* what func returns at each call site
Results(site) ==
    IF site = "pages.create" THEN {{<<"url", <<"u">>>>}, {}}
    ELSE IF site = "files.upload" THEN {[name |-> FileName]}
    ELSE IF site = "generate_content"
    THEN {[text |-> t] : t \in {None, <<>>, <<SP>>, <<"a">>}}
    ELSE {<<"o", "k">>}

FuncOutcomes(site) ==
    {Returns(v) : v \in Results(site)} \cup {Raises(e) : e \in Errors}

\* await retry_with_backoff(func), every parameter at its default
CallRetryWithBackoff(site) ==
    /\ caller' = site
    /\ pc' = "retry"
    /\ max_retries' = DefaultMaxRetries
    /\ base_delay' = DefaultBaseDelay
    /\ max_delay' = DefaultMaxDelay
    /\ retryable_errors' = {"Exception"}
    /\ attempt' = 0
    /\ last_exception' = NoException
    /\ invocations' = <<>>
    /\ sleeps' = <<>>

\* one iteration of: for attempt in range(max_retries + 1).  The statement
\* after the loop is not reached when max_retries >= 0: the last iteration
\* returns or raises.
RetryAttempt ==
    /\ pc = "retry"
    /\ attempt <= max_retries
    /\ \E r \in FuncOutcomes(caller) :
          /\ invocations' = Append(invocations, r)
          /\ \/ /\ r.kind = "return"
                /\ outcome' = r
                /\ pc' = "retry_returned"
                /\ UNCHANGED <<attempt, last_exception, sleeps>>
             \/ /\ r.kind = "raise"
                /\ ~IsInstance(r.value, retryable_errors)
                /\ outcome' = r
                /\ pc' = "retry_raised"
                /\ UNCHANGED <<attempt, last_exception, sleeps>>
             \/ /\ r.kind = "raise"
                /\ IsInstance(r.value, retryable_errors)
                /\ last_exception' = r.value
                /\ IF attempt # max_retries /\ IsRateLimit(r.value)
                   THEN \E jitter \in Jitter :
                          /\ sleeps' = Append(sleeps,
                                Delay(attempt, base_delay, max_delay, jitter))
                          /\ attempt' = attempt + 1
                          /\ UNCHANGED <<pc, outcome>>
                   ELSE /\ outcome' = r
                        /\ pc' = "retry_raised"
                        /\ UNCHANGED <<attempt, sleeps>>
    /\ UNCHANGED <<caller, max_retries, base_delay, max_delay, retryable_errors>>
    /\ UNCHANGED <<page_title, backups, config, waitVars, pdf, remote_files>>
    /\ UNCHANGED convVars

InitRetry ==
    /\ pc = "retry"
    /\ caller = "none"
    /\ max_retries \in 0..MaxRetries
    /\ base_delay = DefaultBaseDelay
    /\ max_delay \in {3, DefaultMaxDelay}
    /\ retryable_errors \in {{"Exception"}, {"ConnectionError"}}
    /\ attempt = 0 /\ last_exception = NoException
    /\ invocations = <<>> /\ sleeps = <<>>
    /\ outcome = Pending
    /\ WaitIdle /\ FilesIdle
    /\ ConversionIdle

NextRetry == RetryAttempt

SpecRetry == InitRetry /\ [][NextRetry]_vars

----------------------------------------------------------------------------
(* push_to_notion: the conversion, then the page creation under             *)
(* retry_with_backoff, then the return or the backup                        *)

PushDocuments ==
    { Join(<< <<"a">>, <<"-", SP, "a", SP, "a">> >>, <<NL>>),
      <<"#", "a">> }

Titles == {<<"a">>, <<"a", "/", "1">>}

InitPush ==
    /\ pc = "start"
    /\ markdown \in PushDocuments
    /\ page_title \in Titles
    /\ backups \in {{}, {<<BackupName(<<"a">>), <<"o">>>>}}
    /\ limit \in 1..MaxBlockLimit
    /\ lines = <<>> /\ i = 0 /\ blocks = <<>> /\ starts = <<>>
    /\ k = 0 /\ notion_blocks = <<>>
    /\ text = <<>> /\ chunks = <<>> /\ cur = 0 /\ rich_text = <<>>
    /\ caller = "none" /\ outcome = Pending
    /\ RetryIdle /\ WaitIdle
    /\ pdf = [exists |-> FALSE, suffix |-> <<>>, size_mb |-> 0]
    /\ remote_files = {}

\* page = await retry_with_backoff(lambda: self.notion.pages.create(...))
PushCreate ==
    /\ pc = "done"
    /\ CallRetryWithBackoff("pages.create")
    /\ UNCHANGED <<outcome, page_title, backups, config, waitVars, pdf, remote_files>>
    /\ UNCHANGED convVars

\* page_url = page.get("url", ""); return page_url
PushReturn ==
    /\ pc = "retry_returned"
    /\ caller = "pages.create"
    /\ outcome' = Returns(Get(outcome.value, "url", <<>>))
    /\ pc' = "push_returned"
    /\ UNCHANGED <<caller, retryVars, page_title, backups, config, waitVars, pdf,
                   remote_files>>
    /\ UNCHANGED convVars

\* except Exception: await self._save_local_backup(markdown, page_title); raise
PushBackup ==
    /\ pc = "retry_raised"
    /\ caller = "pages.create"
    /\ backups' = SaveLocalBackup(backups, markdown, page_title)
    /\ pc' = "push_raised"
    /\ UNCHANGED <<caller, retryVars, outcome, page_title, config, waitVars, pdf,
                   remote_files>>
    /\ UNCHANGED convVars

NextPush ==
    \/ ParseBegin \/ ParseIteration \/ ParseReturn \/ RenderBlock \/ RenderReturn
    \/ PushCreate \/ RetryAttempt \/ PushReturn \/ PushBackup

SpecPush == InitPush /\ [][NextPush]_vars

----------------------------------------------------------------------------
(* _wait_for_file_active: one step per test of its while loop.  Time is in  *)
(* whole seconds; a poll takes 0 or 1 second.                               *)

FileStates == {"PROCESSING", "ACTIVE", "FAILED"}

PollCost == {0, 1}

WithinTimeoutInclusive(elapsed, t) == elapsed <= t

\* the test of: while time.time() - start_time < timeout
WithinTimeout(elapsed, t) == elapsed < t

\* timeout = timeout or ...upload_timeout; poll_interval = poll_interval or
\* ...poll_interval; start_time = time.time()
WaitBegin ==
    /\ pc = "wait"
    /\ timeout' = IF timeout # 0 THEN timeout ELSE config.upload_timeout
    /\ poll_interval' = IF poll_interval # 0 THEN poll_interval ELSE config.poll_interval
    /\ start_time' = now
    /\ polls' = <<>>
    /\ pc' = "poll"
    /\ UNCHANGED <<caller, retryVars, outcome, page_title, backups, config, now, pdf,
                   remote_files>>
    /\ UNCHANGED convVars

\* while time.time() - start_time < timeout: file_state = await ...files.get(...)
WaitPoll ==
    /\ pc = "poll"
    /\ WithinTimeout(now - start_time, timeout)
    /\ \E state \in FileStates, cost \in PollCost :
          /\ polls' = Append(polls, [elapsed |-> now - start_time, state |-> state])
          /\ IF state = "ACTIVE"
             THEN /\ outcome' = Returns([name |-> FileName, state |-> state])
                  /\ pc' = "wait_returned"
                  /\ now' = now + cost
             ELSE IF state = "FAILED"
             THEN /\ outcome' = Raises(Exc("RuntimeError", <<"F", "a", "i", "l", "e", "d">>))
                  /\ pc' = "wait_raised"
                  /\ now' = now + cost
             ELSE /\ now' = now + cost + poll_interval
                  /\ UNCHANGED <<pc, outcome>>
    /\ UNCHANGED <<caller, retryVars, page_title, backups, config, timeout,
                   poll_interval, start_time, pdf, remote_files>>
    /\ UNCHANGED convVars

\* raise TimeoutError(...)
WaitTimeout ==
    /\ pc = "poll"
    /\ ~WithinTimeout(now - start_time, timeout)
    /\ outcome' = Raises(Exc("TimeoutError", <<"T", "i", "m", "e", "o", "u", "t">>))
    /\ pc' = "wait_raised"
    /\ UNCHANGED <<caller, retryVars, page_title, backups, config, waitVars, pdf,
                   remote_files>>
    /\ UNCHANGED convVars

InitWait ==
    /\ pc = "wait"
    /\ caller = "none" /\ outcome = Pending
    /\ config \in Configs
    /\ timeout \in 0..MaxTimeout
    /\ poll_interval \in {0, 2}
    /\ now \in {0, 5}
    /\ start_time = 0 /\ polls = <<>>
    /\ remote_files = {FileName}
    /\ page_title = <<>> /\ backups = {}
    /\ pdf = [exists |-> FALSE, suffix |-> <<>>, size_mb |-> 0]
    /\ RetryIdle
    /\ ConversionIdle

NextWait == WaitBegin \/ WaitPoll \/ WaitTimeout

SpecWait == InitWait /\ [][NextWait]_vars

----------------------------------------------------------------------------
(* transcribe_pdf: validation, upload, wait, generation, deletion, return   *)

Pdfs ==
    { [exists |-> FALSE, suffix |-> <<>>, size_mb |-> 0],
      [exists |-> TRUE, suffix |-> <<".", "t", "x", "t">>, size_mb |-> 1],
      [exists |-> TRUE, suffix |-> <<".", "p", "d", "f">>, size_mb |-> 2],
      [exists |-> TRUE, suffix |-> <<".", "P", "D", "F">>, size_mb |-> 1] }

\* validations 1-3, then uploaded_file = await retry_with_backoff(upload)
TranscribeValidate ==
    /\ pc = "transcribe"
    /\ IF ~pdf.exists
       THEN /\ outcome' = Raises(Exc("FileNotFoundError", <<"P", "D", "F">>))
            /\ pc' = "transcribe_raised"
            /\ UNCHANGED <<caller, retryVars>>
       ELSE IF Lower(pdf.suffix) # <<".", "p", "d", "f">>
            \/ pdf.size_mb > config.max_file_size_mb
       THEN /\ outcome' = Raises(Exc("PDFValidationError", <<"P", "D", "F">>))
            /\ pc' = "transcribe_raised"
            /\ UNCHANGED <<caller, retryVars>>
       ELSE /\ CallRetryWithBackoff("files.upload")
            /\ UNCHANGED outcome
    /\ UNCHANGED <<page_title, backups, config, waitVars, pdf, remote_files>>
    /\ UNCHANGED convVars

\* the upload returned: the service holds the file;
\* file_state = await self._wait_for_file_active(uploaded_file)
UploadReturned ==
    /\ pc = "retry_returned"
    /\ caller = "files.upload"
    /\ remote_files' = remote_files \cup {outcome.value.name}
    /\ caller' = "transcribe_pdf"
    /\ timeout' = 0
    /\ poll_interval' = 0
    /\ pc' = "wait"
    /\ UNCHANGED <<retryVars, outcome, page_title, backups, config, now, start_time,
                   polls, pdf>>
    /\ UNCHANGED convVars

\* if file_state.state != "ACTIVE": raise RuntimeError(...);
\* response = await retry_with_backoff(generate_content)
WaitReturned ==
    /\ pc = "wait_returned"
    /\ caller = "transcribe_pdf"
    /\ IF outcome.value.state # "ACTIVE"
       THEN /\ outcome' = Raises(Exc("RuntimeError", <<"F", "a", "i", "l", "e", "d">>))
            /\ pc' = "transcribe_raised"
            /\ UNCHANGED <<caller, retryVars>>
       ELSE /\ CallRetryWithBackoff("generate_content")
            /\ UNCHANGED outcome
    /\ UNCHANGED <<page_title, backups, config, waitVars, pdf, remote_files>>
    /\ UNCHANGED convVars

\* await self.genai.aio.files.delete(name=uploaded_file.name);
\* transcription = response.text; (a warning is printed when it is empty or
\* shorter than 10 characters); return transcription
GenerateReturned ==
    /\ pc = "retry_returned"
    /\ caller = "generate_content"
    /\ remote_files' = remote_files \ {FileName}
    /\ outcome' = Returns(outcome.value.text)
    /\ pc' = "transcribe_returned"
    /\ UNCHANGED <<caller, retryVars, page_title, backups, config, waitVars, pdf>>
    /\ UNCHANGED convVars

\* an exception of the upload, of the wait or of the generation leaves
\* transcribe_pdf as it is
TranscribePropagate ==
    /\ \/ pc = "retry_raised" /\ caller \in {"files.upload", "generate_content"}
       \/ pc = "wait_raised" /\ caller = "transcribe_pdf"
    /\ pc' = "transcribe_raised"
    /\ UNCHANGED <<caller, retryVars, outcome, page_title, backups, config, waitVars,
                   pdf, remote_files>>
    /\ UNCHANGED convVars

InitTranscribe ==
    /\ pc = "transcribe"
    /\ pdf \in Pdfs
    /\ caller = "none" /\ outcome = Pending
    /\ RetryIdle /\ WaitIdle
    /\ page_title = <<>> /\ backups = {}
    /\ remote_files = {}
    /\ ConversionIdle

NextTranscribe ==
    \/ TranscribeValidate \/ RetryAttempt \/ UploadReturned
    \/ WaitBegin \/ WaitPoll \/ WaitTimeout \/ WaitReturned
    \/ GenerateReturned \/ TranscribePropagate

SpecTranscribe == InitTranscribe /\ [][NextTranscribe]_vars

----------------------------------------------------------------------------
(* Properties of the chunker *)

Returned == pc \in {"chunk_text_done", "force_chunk_done"}

\* a is b with some characters deleted
RECURSIVE IsSubsequence(_, _)
IsSubsequence(a, b) ==
    IF a = <<>> THEN TRUE
    ELSE IF b = <<>> THEN FALSE
    ELSE IF Head(a) = Head(b) THEN IsSubsequence(Tail(a), Tail(b))
    ELSE IsSubsequence(a, Tail(b))

NonWhitespace(s) == SelectSeq(s, LAMBDA c : c \notin Whitespace)

Count(s, ch) == Cardinality({j \in 1..Len(s) : s[j] = ch})

\* C1: every chunk returned by _chunk_text and by _force_chunk is at most
\* limit characters long.
C1_ChunksWithinLimit ==
    Returned => \A j \in 1..Len(chunks) : Len(chunks[j]) <= limit

\* C1 witness: an over-long text went through the paragraph-merge path and a
\* chunk holding a paragraph separator fills the limit exactly.
C1_Witness ==
    /\ pc = "chunk_text_done"
    /\ Len(text) > limit
    /\ \E j \in 1..Len(chunks) :
          Len(chunks[j]) = limit /\ Contains(chunks[j], <<NL, NL>>)
    /\ \E j \in 1..Len(chunks) : "a" \in {chunks[j][n] : n \in 1..Len(chunks[j])}

\* C7: the chunks concatenated in order are the text with only whitespace
\* characters deleted: nothing is added or reordered and no non-whitespace
\* character is lost.
C7_OnlyWhitespaceLost ==
    Returned =>
        /\ IsSubsequence(Concat(chunks), text)
        /\ NonWhitespace(Concat(chunks)) = NonWhitespace(text)

\* C7 witness: an over-long text with non-whitespace characters was cut in
\* several chunks and whitespace was lost at a cut.
C7_Witness ==
    /\ pc = "chunk_text_done"
    /\ Len(text) > limit
    /\ Len(chunks) >= 2
    /\ NonWhitespace(text) # <<>>
    /\ Concat(chunks) # text

\* the positions (1-based) of the '$' characters of s, in increasing order
DollarPositions(s) ==
    SelectSeq([n \in 1..Len(s) |-> n], LAMBDA n : s[n] = DOLLAR)

\* every '$' of s belongs to an inline span '$...$' on one line, the spans
\* pair up left to right, and no span is longer than L
InlineSpansFit(s, L) ==
    LET d == DollarPositions(s)
    IN  /\ Len(d) > 0
        /\ Len(d) % 2 = 0
        /\ ~Contains(s, <<DOLLAR, DOLLAR>>)
        /\ \A m \in 1..(Len(d) \div 2) :
              /\ d[2 * m] - d[2 * m - 1] + 1 <= L
              /\ \A n \in d[2 * m - 1]..d[2 * m] : s[n] # NL

\* C5: when the stripped content of a paragraph or list item is split, every
\* inline math span that fits the limit keeps both its delimiters in one chunk,
\* so every chunk holds whole spans (an even number of '$').
C5_SpansNotBroken ==
    (/\ pc = "chunk_text_done"
     /\ text = Strip(text)
     /\ ~Contains(text, <<NL, NL>>)
     /\ InlineSpansFit(text, limit))
    => \A j \in 1..Len(chunks) : Count(chunks[j], DOLLAR) % 2 = 0

----------------------------------------------------------------------------
(* Properties of the scanner *)

\* the lines that can be rebuilt from the entries by writing each text entry
\* as it is and each equation entry between '$' or between '$$'
RECURSIVE Rewrapped(_)
Rewrapped(entries) ==
    IF entries = <<>> THEN {<<>>}
    ELSE LET e == Head(entries)
             heads == IF e.type = "text" THEN {e.content}
                      ELSE {<<DOLLAR>> \o e.expression \o <<DOLLAR>>,
                            <<DOLLAR, DOLLAR>> \o e.expression \o <<DOLLAR, DOLLAR>>}
         IN  {h \o r : h \in heads, r \in Rewrapped(Tail(entries))}

HasEquation(entries) == \E n \in 1..Len(entries) : entries[n].type = "equation"

\* C4: the spans of a line, math spans re-wrapped in their delimiters,
\* concatenate back to the line.
C4_RoundTrip ==
    pc = "scan_done" => text \in Rewrapped(rich_text)

\* C8: a line without recognized math comes back as exactly one plain-text
\* span holding the whole line, unmatched delimiters included.
C8_NoMathIsOnePlainSpan ==
    (pc = "scan_done" /\ ~HasEquation(rich_text)) => rich_text = <<TextEntry(text)>>

----------------------------------------------------------------------------
(* Properties of the conversion *)

RECURSIVE SumLen(_)
SumLen(parts) == IF parts = <<>> THEN 0 ELSE Len(Head(parts)) + SumLen(Tail(parts))

EntryString(e) == IF e.type = "equation" THEN e.expression ELSE e.content

\* the characters a target block carries
BlockLength(b) ==
    IF b.type = "equation" THEN Len(b.expression)
    ELSE SumLen([n \in 1..Len(b.rich_text) |-> EntryString(b.rich_text[n])])

ListTypes == {"paragraph", "bulleted_list_item", "numbered_list_item"}

HeadingTypes == {"heading_1", "heading_2", "heading_3"}

\* C2: every target block carries at most limit characters, whatever the kind
\* of the semantic block it renders.
C2_BlocksWithinLimit ==
    \A n \in 1..Len(notion_blocks) : BlockLength(notion_blocks[n]) <= limit

\* C2 witness: a conversion ended that rendered a heading whose content
\* exceeds the limit and a paragraph or list item that had to be split.
C2_Witness ==
    /\ pc = "done"
    /\ \E n \in 1..Len(blocks) :
          blocks[n].type \in HeadingTypes /\ Len(blocks[n].content) > limit
    /\ Len(notion_blocks) > Len(blocks)
    /\ \E n \in 1..Len(blocks) :
          blocks[n].type \in ListTypes /\ Len(blocks[n].content) > limit

\* C3: every iteration of the tokenizer's outer loop advances the line index.
C3_EveryIterationAdvances ==
    (pc = "parse" /\ i < Len(lines)) => OuterIteration(lines, i).i > i

RECURSIVE Flatten(_)
Flatten(lists) == IF lists = <<>> THEN <<>> ELSE Head(lists) \o Flatten(Tail(lists))

\* C6: semantic blocks are emitted in increasing order of their first line,
\* the target blocks are those of the semantic blocks rendered so far, in
\* tokenizer order, and the target blocks of the chunked block rendered last are
\* built from its chunks in left-to-right order.
C6_NoReordering ==
    /\ Len(starts) = Len(blocks)
    /\ \A m, n \in 1..Len(starts) : m < n => starts[m] < starts[n]
    /\ pc \in {"render", "done"} =>
          notion_blocks
              = Flatten([n \in 1..k |-> SemanticToNotion(blocks[n], limit)])
    /\ (pc \in {"render", "done"} /\ k > 0 /\ blocks[k].type \in ListTypes) =>
          LET cs  == ChunkText(blocks[k].content, limit)
              out == SemanticToNotion(blocks[k], limit)
          IN  /\ Len(out) = Len(cs)
              /\ \A m \in 1..Len(cs) : out[m].rich_text = ParseRichText(cs[m])
              /\ IsSubsequence(Concat(cs), blocks[k].content)

\* C6 witness: a conversion ended with several semantic blocks of different
\* kinds, one of them split into several target blocks.
C6_Witness ==
    /\ pc = "done"
    /\ Len(blocks) >= 2
    /\ Len(notion_blocks) > Len(blocks)
    /\ notion_blocks[1].type # notion_blocks[Len(notion_blocks)].type

AtLine == pc = "parse" /\ i < Len(lines)

IsDelimiterLine(line) == Strip(line) = <<DOLLAR, DOLLAR>>

\* C9: at a line that trims to '$$' the tokenizer appends exactly one Equation
\* block, whose content is the following lines up to the next '$$' line or the
\* end of input, joined by newline and trimmed, and moves to the line after the
\* closing delimiter; the lines in between produce nothing else.
C9_EquationStep ==
    (AtLine /\ IsDelimiterLine(lines[i + 1])) =>
        \E close \in (i + 1)..Len(lines) :
            /\ close < Len(lines) => IsDelimiterLine(lines[close + 1])
            /\ \A j \in (i + 1)..(close - 1) : ~IsDelimiterLine(lines[j + 1])
            /\ blocks' = Append(blocks,
                   SemanticBlock("equation",
                       Strip(Join(SubSeq(lines, i + 2, close), <<NL>>))))
            /\ i' = close + 1
            /\ pc' = "parse"

C9_EquationAccumulation == [][C9_EquationStep]_vars

\* C9 witness: a terminated equation whose body has a line with leading
\* whitespace was emitted as the only block of a three-line input.
C9_Witness ==
    /\ pc = "done"
    /\ Len(lines) = 3
    /\ IsDelimiterLine(lines[1]) /\ IsDelimiterLine(lines[3])
    /\ StartsWith(lines[2], <<SP>>)
    /\ Len(blocks) = 1
    /\ blocks[1].type = "equation"
    /\ blocks[1].content # <<>>

IsPlainLine(line) == Strip(line) # <<>> /\ ~IsSpecialLine(line)

\* C10: at a line that is neither blank nor special the tokenizer appends
\* exactly one Paragraph block made of the maximal run of such lines, each
\* trimmed, joined by newline, and stops on the line that ended the run without
\* consuming it; a blank line produces no block and advances one line.
C10_ParagraphStep ==
    /\ (AtLine /\ IsPlainLine(lines[i + 1])) =>
          \E stop \in (i + 1)..Len(lines) :
              /\ i > 0 => ~IsPlainLine(lines[i])
              /\ \A j \in i..(stop - 1) : IsPlainLine(lines[j + 1])
              /\ stop < Len(lines) => ~IsPlainLine(lines[stop + 1])
              /\ blocks' = Append(blocks,
                     SemanticBlock("paragraph",
                         Join([n \in 1..(stop - i) |-> Strip(lines[i + n])], <<NL>>)))
              /\ i' = stop
              /\ pc' = "parse"
    /\ (AtLine /\ Strip(lines[i + 1]) = <<>>) =>
          /\ blocks' = blocks
          /\ i' = i + 1
          /\ pc' = "parse"

C10_ParagraphAccumulation == [][C10_ParagraphStep]_vars

\* C10 witness: two runs separated by a blank line gave two Paragraph blocks.
C10_Witness ==
    /\ pc = "done"
    /\ Len(lines) = 3
    /\ Strip(lines[2]) = <<>>
    /\ StartsWith(lines[1], <<SP>>)
    /\ Len(blocks) = 2
    /\ blocks[1].type = "paragraph" /\ blocks[2].type = "paragraph"

\* the 1-based positions of s where a '.' is followed by a space
DotSpaceAt(s) == {j \in 1..(Len(s) - 1) : s[j] = "." /\ s[j + 1] = SP}

MatchesRules1to3(line) ==
    LET st == Strip(line)
    IN  \/ StartsWith(st, <<"#", SP>>)
        \/ StartsWith(st, <<"#", "#", SP>>)
        \/ StartsWith(st, <<"#", "#", "#", SP>>)
        \/ st = <<DOLLAR, DOLLAR>>
        \/ StartsWith(st, <<"-", SP>>)
        \/ StartsWith(st, <<"*", SP>>)

LooksNumbered(line) ==
    LET st == Strip(line)
    IN  st # <<>> /\ st[1] \in {"1", "3"} /\ DotSpaceAt(st) # {}

\* C11: a line that matches none of the heading, '$$' and bullet rules gives
\* exactly one NumberedListItem, whose content follows the first '. ', if and
\* only if its trimmed form starts with a digit and contains '. '; the step
\* consumes that line alone.
C11_NumberedStep ==
    (AtLine /\ ~MatchesRules1to3(lines[i + 1])) =>
        LET st == Strip(lines[i + 1])
        IN  IF LooksNumbered(lines[i + 1])
            THEN LET first == CHOOSE j \in DotSpaceAt(st) : \A h \in DotSpaceAt(st) : j <= h
                 IN  /\ blocks' = Append(blocks,
                            SemanticBlock("numbered_list_item", SubSeq(st, first + 2, Len(st))))
                     /\ i' = i + 1
            ELSE \A n \in (Len(blocks) + 1)..Len(blocks') :
                     blocks'[n].type # "numbered_list_item"

C11_NumberedListRule == [][C11_NumberedStep]_vars

\* C11 witness: two consecutive numbered lines gave two NumberedListItem
\* blocks with the text after '. '.
C11_Witness ==
    /\ pc = "done"
    /\ Len(blocks) >= 2
    /\ blocks[1] = SemanticBlock("numbered_list_item", <<"a">>)
    /\ blocks[2] = SemanticBlock("numbered_list_item", <<"a">>)
    /\ starts[2] = starts[1] + 1

SpecialBlockTypes ==
    HeadingTypes \cup {"equation", "bulleted_list_item", "numbered_list_item"}

\* the dispatch handles the line by one of rules 1-4
HandledByRules1to4(line) ==
    LET step == OuterIteration(<<line>>, 0)
    IN  step.emit # <<>> /\ step.emit[1].type \in SpecialBlockTypes

\* C16: _is_special_line is true of a line exactly when the dispatch handles
\* that line by one of rules 1-4.
C16_SpecialAgreesWithDispatch ==
    AtLine => (IsSpecialLine(lines[i + 1]) <=> HandledByRules1to4(lines[i + 1]))

\* the piece and the remainder of one cut of t, the cut placed before the last
\* space among the 0-based indices 0..last, or at L when there is none
CutAt(t, L, last) ==
    LET spaces == {j \in 0..Min(last, Len(t) - 1) : t[j + 1] = SP}
        cut    == IF spaces = {} THEN L
                  ELSE CHOOSE j \in spaces : \A h \in spaces : j >= h
    IN  [piece |-> SubSeq(t, 1, cut), rest |-> LStrip(SubSeq(t, cut + 1, Len(t)))]

RECURSIVE CutsAt(_, _, _)
CutsAt(t, L, offset) ==
    IF Len(t) > L
    THEN LET c == CutAt(t, L, L + offset) IN <<c.piece>> \o CutsAt(c.rest, L, offset)
    ELSE IF t # <<>> THEN <<t>> ELSE <<>>

\* C17 as stated: each piece ends before the last space at an index <= limit.
C17_CutAtOrBeforeLimit ==
    pc = "force_chunk_done" => chunks = CutsAt(text, limit, 0)

\* C17 as amended: each piece ends before the last space at an index < limit
\* (a space at index limit is not looked at), the text is cut at exactly limit
\* when there is none, and the remainder loses its leading whitespace.
C17_CutBeforeLimit ==
    pc = "force_chunk_done" => chunks = CutsAt(text, limit, -1)

\* C17 witness: a text longer than limit with a space at index limit and
\* another one before it was force-chunked.
C17_Witness ==
    /\ pc = "force_chunk_done"
    /\ Len(text) > limit
    /\ text[limit + 1] = SP
    /\ \E j \in 1..limit : text[j] = SP
    /\ Len(chunks) >= 2

\* C18: an Equation or Heading block gives exactly one target block built from
\* the first limit characters of its content; a Paragraph or list item gives
\* one target block of its own type per chunk of its whole content, at least
\* one.
C18_RenderStep ==
    (pc = "render" /\ k < Len(blocks)) =>
        LET b   == blocks[k + 1]
            new == SubSeq(notion_blocks', Len(notion_blocks) + 1, Len(notion_blocks'))
            cs  == ChunkText(b.content, limit)
        IN  /\ SubSeq(notion_blocks', 1, Len(notion_blocks)) = notion_blocks
            /\ b.type = "equation" =>
                  new = <<[type |-> "equation",
                           expression |-> SubSeq(b.content, 1, Min(limit, Len(b.content)))]>>
            /\ b.type \in HeadingTypes =>
                  /\ Len(new) = 1
                  /\ new[1].type = b.type
                  /\ new[1].rich_text
                        = ParseRichText(SubSeq(b.content, 1, Min(limit, Len(b.content))))
            /\ b.type \in ListTypes =>
                  /\ Len(new) = Len(cs)
                  /\ Len(new) >= 1
                  /\ \A m \in 1..Len(new) :
                        new[m].type = b.type /\ new[m].rich_text = ParseRichText(cs[m])

C18_BlocksPerSemanticBlock == [][C18_RenderStep]_vars

\* C18 witness: a conversion ended in which a list item was split into several
\* target blocks and an equation longer than the limit gave a single one.
C18_Witness ==
    /\ pc = "done"
    /\ Len(blocks) = 2
    /\ blocks[1].type = "bulleted_list_item"
    /\ blocks[2].type = "equation"
    /\ Len(blocks[2].content) > limit
    /\ Len(notion_blocks) > 2
    /\ notion_blocks[Len(notion_blocks)].type = "equation"

\* a digit followed by '. ' somewhere after a first character that is no digit
DigitDotSpaceInside(line) ==
    LET st == Strip(line)
    IN  /\ st # <<>>
        /\ st[1] \notin {"1", "3"}
        /\ \E j \in 2..(Len(st) - 2) :
              st[j] \in {"1", "3"} /\ st[j + 1] = "." /\ st[j + 2] = SP

----------------------------------------------------------------------------
(* Properties of the external calls *)

\* the messages of the model that mention a rate limit
MentionsRateLimit(e) == e.msg \in {<<"4", "2", "9">>, <<"R", "a", "t", "e">>}

\* invocation j of func failed with a rate-limit error that the call catches
FailedOnRateLimit(j) ==
    /\ invocations[j].kind = "raise"
    /\ MentionsRateLimit(invocations[j].value)
    /\ "Exception" \in retryable_errors \/ invocations[j].value.type \in retryable_errors

\* C12: while func fails with rate-limit errors it is invoked again, up to
\* max_retries + 1 invocations in all; a success at invocation k+1 (k <=
\* max_retries) is returned at once; when every invocation fails, the last
\* exception is raised after exactly max_retries + 1 invocations and
\* max_retries sleeps, none of them after the final failure.
C12_RetryCountAndOutcome ==
    LET n == Len(invocations)
    IN  /\ pc = "retry" =>
              /\ n = attempt /\ attempt <= max_retries
              /\ Len(sleeps) = n
              /\ \A j \in 1..n : FailedOnRateLimit(j)
        /\ (pc = "retry_returned" /\ \A j \in 1..(n - 1) : FailedOnRateLimit(j)) =>
              /\ n - 1 <= max_retries
              /\ outcome = invocations[n] /\ outcome.kind = "return"
              /\ Len(sleeps) = n - 1
        /\ (pc = "retry_raised" /\ \A j \in 1..n : FailedOnRateLimit(j)) =>
              /\ n = max_retries + 1
              /\ outcome = invocations[n]
              /\ last_exception = outcome.value
              /\ Len(sleeps) = max_retries

\* C12 witness: with at least two retries allowed, every invocation failed on
\* a rate limit and the call raised.
C12_Witness ==
    /\ pc = "retry_raised"
    /\ max_retries >= 2
    /\ Len(invocations) = max_retries + 1
    /\ \A j \in 1..Len(invocations) : FailedOnRateLimit(j)

\* C13: a page creation that fails is followed by the writing of the whole
\* markdown to the backup file named after the page title, and the exception of
\* the page creation is the one push_to_notion raises; a page creation that
\* succeeds returns the url of the page; no other step writes a backup.
C13_BackupStep ==
    /\ (pc = "retry_raised" /\ caller = "pages.create") => pc' = "push_raised"
    /\ (pc = "retry_returned" /\ caller = "pages.create") => pc' = "push_returned"
    /\ (pc' = "push_raised" /\ pc # "push_raised") =>
          /\ pc = "retry_raised"
          /\ outcome.kind = "raise"
          /\ outcome.value = invocations[Len(invocations)].value
          /\ outcome' = outcome
          /\ <<BackupName(page_title), markdown>> \in backups'
          /\ \A f \in backups' :
                f[1] = BackupName(page_title) => f[2] = markdown
          /\ \A f \in backups : f[1] # BackupName(page_title) => f \in backups'
    /\ (pc' = "push_returned" /\ pc # "push_returned") =>
          /\ pc = "retry_returned"
          /\ outcome'.kind = "return"
          /\ LET page == invocations[Len(invocations)].value
             IN  outcome'.value = IF page = {} THEN <<>> ELSE <<"u">>
    /\ backups' # backups => pc' = "push_raised"

C13_BackupOnFailure == [][C13_BackupStep]_vars

\* C13 witness: the page creation failed after a retry and the markdown is in
\* the backup file of a title with a character that is replaced.
C13_Witness ==
    /\ pc = "push_raised"
    /\ page_title = <<"a", "/", "1">>
    /\ Len(invocations) >= 2
    /\ <<<<"a", "_", "1", ".", "m", "d">>, markdown>> \in backups

\* C14: a file is returned only when the last poll saw ACTIVE; RuntimeError is
\* raised at the first poll that sees FAILED; TimeoutError is raised when the
\* time is up and every poll saw another state; every poll started before the
\* timeout had elapsed.
C14_PollingOutcomes ==
    LET n == Len(polls)
    IN  /\ \A j \in 1..n : polls[j].elapsed < timeout
        /\ \A j \in 1..(n - 1) : polls[j].state \notin {"ACTIVE", "FAILED"}
        /\ pc = "poll" => (n > 0 => polls[n].state \notin {"ACTIVE", "FAILED"})
        /\ pc = "wait_returned" =>
              /\ outcome.kind = "return"
              /\ outcome.value.state = "ACTIVE"
              /\ n > 0 /\ polls[n].state = "ACTIVE"
        /\ pc = "wait_raised" =>
              /\ outcome.kind = "raise"
              /\ outcome.value.type \in {"RuntimeError", "TimeoutError"}
              /\ outcome.value.type = "RuntimeError" <=>
                    (n > 0 /\ polls[n].state = "FAILED")
              /\ outcome.value.type = "TimeoutError" =>
                    now - start_time >= timeout

\* C14 witness: two polls saw the file in processing and the wait timed out.
C14_Witness ==
    /\ pc = "wait_raised"
    /\ outcome.value.type = "TimeoutError"
    /\ Len(polls) >= 2

\* C15: transcribe_pdf returns only a transcription that is present and not
\* empty; a generation that fails makes it raise TranscriptionError.
C15_NeverReturnsEmpty ==
    /\ pc = "transcribe_returned" =>
          outcome.value # None /\ Strip(outcome.value) # <<>>
    /\ (pc = "transcribe_raised" /\ caller = "generate_content") =>
          outcome.value.type = "TranscriptionError"

\* C20: an exception whose type is in retryable_errors reaches the caller only
\* when no attempt remains, whatever its message.
C20_RetriesOnRetryableTypes ==
    (/\ pc = "retry_raised"
     /\ "Exception" \in retryable_errors \/ outcome.value.type \in retryable_errors) =>
        Len(invocations) = max_retries + 1

----------------------------------------------------------------------------
(* Termination of the scanner *)

\* C21: every iteration of the loop of _parse_line_for_latex moves the cursor
\* strictly forward and never past the end of the line, and the scan returns,
\* whatever the arrangement of '$' characters.
C21_ScanTerminates ==
    /\ [][(pc = "scan" /\ cur < Len(text)) => (cur < cur' /\ cur' <= Len(text))]_vars
    /\ <>(pc = "scan_done")

\* C21 witness: a scan returned on a line with at least two '$', none of them
\* matched, the cursor having stepped over each by one character.
C21_Witness ==
    /\ pc = "scan_done"
    /\ cur = Len(text)
    /\ Count(text, DOLLAR) >= 2
    /\ ~HasEquation(rich_text)

----------------------------------------------------------------------------
(* Line breaks in rich text *)

IsLineBreak(e) == e.type = "text" /\ e.content = <<NL>>

\* the positions of the line-break entries of a rich-text list
BreakPositions(rt) == {p \in 1..Len(rt) : IsLineBreak(rt[p])}

\* the position of the j-th line-break entry; 0 for j = 0 and Len + 1 past the
\* last one
BreakPosition(rt, j) ==
    IF j = 0 THEN 0
    ELSE IF j > Cardinality(BreakPositions(rt)) THEN Len(rt) + 1
    ELSE CHOOSE p \in BreakPositions(rt) :
            Cardinality({q \in BreakPositions(rt) : q <= p}) = j

\* C22: for a text of n lines _parse_rich_text returns the entries of each
\* line in order, separated by exactly n-1 entries whose content is a newline,
\* none after the last line, and never an empty list.
C22_LineBreaksBetweenLines ==
    pc = "rich_done" =>
        LET ls == Split(text, <<NL>>)
            n  == Len(ls)
        IN  /\ rich_text # <<>>
            /\ Cardinality(BreakPositions(rich_text)) = n - 1
            /\ ~IsLineBreak(rich_text[Len(rich_text)])
            /\ \A j \in 1..n :
                  SubSeq(rich_text,
                         BreakPosition(rich_text, j - 1) + 1,
                         BreakPosition(rich_text, j) - 1)
                    = ParseLineForLatex(ls[j])

\* C22 witness: a text of three lines or more, one with a math span and one
\* empty, was parsed.
C22_Witness ==
    /\ pc = "rich_done"
    /\ Len(Split(text, <<NL>>)) >= 3
    /\ \E j \in 1..Len(Split(text, <<NL>>)) : Split(text, <<NL>>)[j] = <<>>
    /\ HasEquation(rich_text)

----------------------------------------------------------------------------
(* Empty chunks, remote file cleanup, empty math spans *)

\* C23: for a text longer than limit, every chunk returned by _chunk_text and
\* by _force_chunk is a non-empty string.
C23_NoEmptyChunk ==
    (Returned /\ Len(text) > limit) =>
        \A n \in 1..Len(chunks) : chunks[n] # <<>>

\* C24: when transcribe_pdf finishes, by a return or by an exception, the
\* transcription service no longer holds the uploaded file.
C24_RemoteFileDeleted ==
    pc \in {"transcribe_returned", "transcribe_raised"} => FileName \notin remote_files

\* C25: every math span emitted by the scanner has an expression of at least
\* one character.
C25_NoEmptyExpression ==
    \A n \in 1..Len(rich_text) :
        rich_text[n].type = "equation" => Len(rich_text[n].expression) >= 1

====
